---- MODULE Spec2Model ----
(***************************************************************************)
(* Model of the scheduling and timing engine of mercury (src/elements.py): *)
(* the pausable Clock, the Routine family, the Schedule, the alarm         *)
(* evaluation of InstrumentSet and the Experiment driver loop.             *)
(*                                                                         *)
(* Time is the integer reading of time.time(); it never runs backwards.    *)
(* Inside one handler the wall clock may advance between two reads of it   *)
(* (instrument I/O, file I/O, the interpreter itself): every handler draws *)
(* those advances so that they sum to at most MaxLag.                      *)
(***************************************************************************)
EXTENDS Integers, Sequences, FiniteSets, TLC

\* ---------------------------------------------------------------- bounds
MaxTime == 4        \* horizon of the wall clock
MaxLag == 1         \* largest advance of the wall clock inside one handler
MaxCalls == 4       \* most __next__ calls on a free-standing routine

\* ------------------------------------------------------- Python sentinels
None == -1          \* Python None (all modelled numbers are >= 0)
Inf == 1000         \* np.inf
NegInf == -1000     \* -np.inf

\* wall-clock reading at which the objects are constructed (time.time() > 0)
Epoch == 1

VARIABLES
    now,            \* time.time()
    clk,            \* a free-standing Clock object
    gStart,         \* ghost: wall-clock instant of the last Clock.start()
    gPaused,        \* ghost: a stop() has been called and no resume()/start() since
    gCurPause,      \* ghost: wall-clock length of the paused interval in progress
    gPausedTotal,   \* ghost: sum of the lengths of the completed paused intervals
    lastRead,       \* ghost: previous Clock.time() reading since start(), or None
    lastPausedRead, \* ghost: previous reading taken in the current paused interval, or None
    gLast,          \* ghost: the last call on clk (or "tick"), and the state it was made in
    rc,             \* the runcard the Experiment was built from (index into Runcards)
    eclock,         \* Experiment.clock
    sclock,         \* Schedule.clock, shared by the routines
    cursor,         \* per routine: number of elements consumed from values_iter
    last_step,      \* Experiment.last_step
    last_save,      \* Experiment.last_save
    data,           \* Experiment.data, the record: a sequence of snapshots
    running,        \* Experiment.running
    finished,       \* Experiment.finished
    followup,       \* Experiment.followup
    triggered,      \* per alarm: InstrumentSet.alarms[name]['triggered']
    knob_values,    \* instrument.knob_values of every instrument knob
    connected,      \* InstrumentSet.instruments is still the dict of instruments
    result,         \* outcome of the last Experiment.__next__ call
    evals,          \* the routine evaluations of the last Schedule.__next__ call
    applied,        \* the configuration handed to InstrumentSet.apply by the last step
    durRead,        \* Schedule clock reading of the last duration check
    lastEval,       \* readings handed to the last check_alarms call
    svLast,         \* the last Experiment.save call
    svPrevU,        \* the last unforced Experiment.save call before svLast
    svFlushU,       \* clock reading of the last unforced save before svLast that flushed
    svForced,       \* Experiment clock reading when the last forced save returned, or None
    tally,          \* what the Experiment.__next__ calls have done so far
    rt              \* a free-standing routine on the Clock clk and its last __next__ call

clockVars == <<clk, gStart, gPaused, gCurPause, gPausedTotal, lastRead, lastPausedRead,
              gLast>>

expVars == <<rc, eclock, sclock, cursor, last_step, last_save, data, running, finished,
             followup, triggered, knob_values, connected>>

obsVars == <<result, evals, applied, durRead, lastEval, svLast, svPrevU, svFlushU, svForced,
            tally>>

routineVars == <<rt>>

vars == <<now, clockVars, expVars, obsVars, routineVars>>

\* ------------------------------------------------------------------ Clock
\* Python truthiness of a number-or-None: `if not self.stop_time`
Falsy(x) == x = None \/ x = 0

ClockStart_Paused(t) ==
    [start_time |-> t, stop_time |-> t, total_stoppage |-> 0]

ClockStart(t) ==
    [start_time |-> t, stop_time |-> None, total_stoppage |-> 0]

ClockTime_NotFrozen(c, t) == t - c.start_time - c.total_stoppage

ClockTime(c, t) ==
    IF Falsy(c.stop_time)
    THEN t - c.start_time - c.total_stoppage
    ELSE c.stop_time - c.start_time - c.total_stoppage

ClockStop_Overwrite(c, t) == [c EXCEPT !.stop_time = t]

ClockStop(c, t) ==
    IF Falsy(c.stop_time) THEN [c EXCEPT !.stop_time = t] ELSE c

ClockResume_Unguarded(c, t) ==
    [c EXCEPT !.total_stoppage = @ + (t - c.stop_time), !.stop_time = None]

ClockResume_Twice(c, t) ==
    IF ~Falsy(c.stop_time)
    THEN [c EXCEPT !.total_stoppage = @ + 2 * (t - c.stop_time), !.stop_time = None]
    ELSE c

ClockResume_NoAccumulate(c, t) ==
    IF ~Falsy(c.stop_time)
    THEN [c EXCEPT !.total_stoppage = t - c.stop_time, !.stop_time = None]
    ELSE c

ClockResume(c, t) ==
    IF ~Falsy(c.stop_time)
    THEN [c EXCEPT !.total_stoppage = @ + (t - c.stop_time), !.stop_time = None]
    ELSE c


\* ------------------------------------------------------------ the runcards
\* Instruments: "K" is a Keithley2400 (knobs voltage, current), "TC" a
\* TCReader (meter temperature).  Mapped variables (runcard 'Variables'):
\*   V -> K, knob voltage, meter voltage      I -> K, knob current, no meter
\*   T -> TC, no knob, meter temperature
\* A knob given as the tuple (instrument, knob) is written "K/current".
MappedVariables == {"V", "I", "T"}

PairKnobs == {"K/current"}

IsStr(k) == k \notin PairKnobs     \* type(knob_name) is str

\* MappedVariable.knob ("" is None)
VarKnob(name) == CASE name = "V" -> "voltage" [] name = "I" -> "current" [] OTHER -> ""

\* the second element of an (instrument, knob) tuple
PairKnob(k) == "current"

InstrumentKnobs == {"voltage", "current"}

MeteredVariables == {"V", "T"}

\* what the meters return in one InstrumentSet.read
MeterReadings == { [m \in MeteredVariables |-> v] : v \in {1, 2} }

NoAlarms == <<>>

Routine(name, kind, variable, times, values) ==
    [name |-> name, kind |-> kind, variable |-> variable, times |-> times, values |-> values]

Alarm(name, meter, condition, threshold, protocol) ==
    [name |-> name, meter |-> meter, condition |-> condition,
     threshold |-> threshold, protocol |-> protocol]

\* The runcards the Experiment is built from.  presets maps instrument knobs
\* to the value set at construction, None where the runcard has no preset
\* (Keithley2400.__init__ leaves knob_values['voltage'/'current'] at None).
Runcards == <<
    [ schedule |-> << Routine("hold", "Hold", "V", <<1, 2>>, <<3>>),
                      Routine("ramp", "Ramp", "I", <<0, 2>>, <<0, 4>>) >>,
      duration |-> 2, step_interval |-> 0, save_interval |-> 2,
      alarms |-> NoAlarms, followup |-> "None",
      presets |-> [k \in InstrumentKnobs |-> 0] ],
    [ schedule |-> << Routine("sweep", "Sweep", "V", <<1, 2>>, <<1, 2>>) >>,
      duration |-> 2, step_interval |-> 1, save_interval |-> 2,
      alarms |-> << Alarm("hot", "T", "GREATER", 1, "cool down"),
                    Alarm("low", "T", "LEQ", 1, "warm up") >>,
      followup |-> "None",
      presets |-> [k \in InstrumentKnobs |-> None] ],
    [ schedule |-> << Routine("hold", "Hold", "K/current", <<1>>, <<2>>),
                      Routine("transit", "Transit", "V", <<2>>, <<1, 2>>) >>,
      duration |-> 2, step_interval |-> 0, save_interval |-> 1,
      alarms |-> << Alarm("warm", "T", "GEQ", 2, "stop") >>,
      followup |-> "notify",
      presets |-> [k \in InstrumentKnobs |-> 0] ],
    [ schedule |-> << Routine("long", "Hold", "V", <<0, 1, 2>>, <<3>>) >>,
      duration |-> 2, step_interval |-> 0, save_interval |-> 2,
      alarms |-> NoAlarms, followup |-> "None",
      presets |-> [k \in InstrumentKnobs |-> 0] ],
    [ schedule |-> << Routine("path", "Path", "V", <<0, 1>>, <<3>>) >>,
      duration |-> 2, step_interval |-> 0, save_interval |-> 2,
      alarms |-> NoAlarms, followup |-> "None",
      presets |-> [k \in InstrumentKnobs |-> 0] ],
    [ schedule |-> << Routine("early", "Hold", "V", <<0, 2>>, <<3>>),
                      Routine("late", "Hold", "V", <<1, 3>>, <<4>>) >>,
      duration |-> 2, step_interval |-> 1, save_interval |-> 2,
      alarms |-> NoAlarms, followup |-> "None",
      presets |-> [k \in InstrumentKnobs |-> 0] ]
>>

\* Schedule.add raises on this routine specification: the only check made
\* when a routine is constructed is the lookup of its kind
AddRaises(r) == r.kind \notin {"Hold", "Ramp", "Sweep", "Transit"}

\* Experiment.__init__(runcard r) returns an Experiment
Buildable(r) == \A i \in DOMAIN Runcards[r].schedule : ~AddRaises(Runcards[r].schedule[i])

RC == Runcards[rc]

Schedule == RC.schedule

\* ---------------------------------------------------------------- Routines
\* The result of one __next__ of a routine: the exception raised ("" if
\* none), whether the routine read the clock, the value returned (None is
\* no_change) and the position of values_iter afterwards.
Raised(e, pos) == [err |-> e, read |-> FALSE, out |-> None, pos |-> pos]

Returned(v, pos) == [err |-> "", read |-> TRUE, out |-> v, pos |-> pos]

HoldNext_Exclusive(r, pos, t) ==
    IF Len(r.times) \notin {1, 2} THEN Raised("IndexError", pos)
    ELSE LET start == r.times[1]
             end == IF Len(r.times) = 1 THEN Inf ELSE r.times[2]
         IN IF start < t /\ t < end THEN Returned(r.values[1], pos) ELSE Returned(None, pos)

HoldNext_NoEnd(r, pos, t) ==
    IF Len(r.times) \notin {1, 2} THEN Raised("IndexError", pos)
    ELSE IF r.times[1] <= t THEN Returned(r.values[1], pos) ELSE Returned(None, pos)

HoldNext(r, pos, t) ==
    IF Len(r.times) \notin {1, 2} THEN Raised("IndexError", pos)
    ELSE LET start == r.times[1]
             end == IF Len(r.times) = 1 THEN Inf ELSE r.times[2]
         IN IF start <= t /\ t <= end THEN Returned(r.values[1], pos) ELSE Returned(None, pos)

RampNext_NoScale(r, pos, t) ==
    IF Len(r.times) \notin {1, 2} THEN Raised("IndexError", pos)
    ELSE IF Len(r.values) # 2 THEN Raised("ValueError", pos)
    ELSE LET start == r.times[1]
             end == IF Len(r.times) = 1 THEN Inf ELSE r.times[2]
         IN IF start <= t /\ t <= end
            THEN Returned(r.values[1] + (r.values[2] - r.values[1]) * (t - start), pos)
            ELSE Returned(None, pos)

\* start_value + (end_value - start_value)*(now - start) / (end - start);
\* a division by np.inf gives 0.0, a division by zero raises.  The ramps of
\* Runcards are chosen so that the quotient is an integer.
RampNext(r, pos, t) ==
    IF Len(r.times) \notin {1, 2} THEN Raised("IndexError", pos)
    ELSE IF Len(r.values) # 2 THEN Raised("ValueError", pos)
    ELSE LET start == r.times[1]
             end == IF Len(r.times) = 1 THEN Inf ELSE r.times[2]
             a == r.values[1]
             b == r.values[2]
         IN IF start <= t /\ t <= end
            THEN IF end = Inf THEN Returned(a, pos)
                 ELSE IF end = start THEN [Raised("ZeroDivisionError", pos) EXCEPT !.read = TRUE]
                 ELSE Returned(a + ((b - a) * (t - start)) \div (end - start), pos)
            ELSE Returned(None, pos)

TransitNext_NoCutoff(r, pos, t) ==
    IF Len(r.times) # 1 THEN Raised("IndexError", pos)
    ELSE IF pos < Len(r.values) THEN Returned(r.values[pos + 1], pos + 1)
         ELSE Returned(None, pos)

\* next(self.values_iter, None)
TransitNext(r, pos, t) ==
    IF Len(r.times) # 1 THEN Raised("IndexError", pos)
    ELSE IF t <= r.times[1]
         THEN IF pos < Len(r.values) THEN Returned(r.values[pos + 1], pos + 1)
              ELSE Returned(None, pos)
         ELSE Returned(None, pos)

SweepNext_ResetOutside(r, pos, t) ==
    IF Len(r.times) \notin {1, 2} THEN Raised("IndexError", pos)
    ELSE LET start == r.times[1]
             end == IF Len(r.times) = 1 THEN Inf ELSE r.times[2]
         IN IF start <= t /\ t <= end
            THEN IF pos < Len(r.values) THEN Returned(r.values[pos + 1], pos + 1)
                 ELSE Returned(r.values[1], 1)
            ELSE Returned(None, 0)

SweepNext_NoRestart(r, pos, t) ==
    IF Len(r.times) \notin {1, 2} THEN Raised("IndexError", pos)
    ELSE LET start == r.times[1]
             end == IF Len(r.times) = 1 THEN Inf ELSE r.times[2]
         IN IF start <= t /\ t <= end /\ pos < Len(r.values)
            THEN Returned(r.values[pos + 1], pos + 1)
            ELSE Returned(None, pos)

\* next(self.values_iter), restarted from iter(self.values) when exhausted
SweepNext(r, pos, t) ==
    IF Len(r.times) \notin {1, 2} THEN Raised("IndexError", pos)
    ELSE LET start == r.times[1]
             end == IF Len(r.times) = 1 THEN Inf ELSE r.times[2]
         IN IF start <= t /\ t <= end
            THEN IF pos < Len(r.values) THEN Returned(r.values[pos + 1], pos + 1)
                 ELSE IF Len(r.values) > 0 THEN Returned(r.values[1], 1)
                 ELSE [Raised("StopIteration", 0) EXCEPT !.read = TRUE]
            ELSE Returned(None, pos)

RoutineNext(r, pos, t) ==
    CASE r.kind = "Hold" -> HoldNext(r, pos, t)
      [] r.kind = "Ramp" -> RampNext(r, pos, t)
      [] r.kind = "Sweep" -> SweepNext(r, pos, t)
      [] r.kind = "Transit" -> TransitNext(r, pos, t)


\* The routines constructed on their own, as Routine.__init__(times, values,
\* clock) allows, each with a window of one or two bounds
FreeRoutines == {
    Routine("hold", "Hold", "V", <<1, 3>>, <<3>>),
    Routine("hold_open", "Hold", "V", <<2>>, <<5>>),
    Routine("ramp", "Ramp", "V", <<1, 3>>, <<1, 5>>),
    Routine("ramp_down", "Ramp", "V", <<0, 2>>, <<6, 2>>),
    Routine("ramp_open", "Ramp", "V", <<1>>, <<1, 5>>),
    Routine("sweep", "Sweep", "V", <<1, 3>>, <<4, 5>>),
    Routine("sweep_open", "Sweep", "V", <<0>>, <<1, 2, 3>>),
    Routine("transit", "Transit", "V", <<2>>, <<1, 2>>),
    Routine("transit_one", "Transit", "V", <<3>>, <<7>>)
}

\* Routines that are constructed without error as well (Routine.__init__
\* checks neither the window nor the values): a Ramp whose window starts and
\* ends at the same time, a Sweep over no values
DegenerateRoutines == {
    Routine("ramp_point", "Ramp", "V", <<2, 2>>, <<1, 5>>),
    Routine("sweep_empty", "Sweep", "V", <<1, 3>>, <<>>)
}

\* the test on the clock reading made by __next__ of a routine with a
\* well-formed window: start <= now <= end, for a Transit now <= end
InWindow(r, t) ==
    IF r.kind = "Transit" THEN t <= r.times[1]
    ELSE r.times[1] <= t /\ t <= (IF Len(r.times) = 1 THEN Inf ELSE r.times[2])

\* a routine just constructed: values_iter at the start, no call made yet.
\* calls counts the __next__ calls, k those made inside the window; left
\* tells that a call outside the window followed one inside it; t, inside,
\* out and err describe the last call.
Fresh(r) == [r |-> r, pos |-> 0, calls |-> 0, k |-> 0, left |-> FALSE, t |-> None,
             inside |-> FALSE, out |-> None, err |-> ""]

\* ------------------------------------------------------------- Python dict
\* A dict is the sequence of its items in insertion order.
Item(k, v) == [k |-> k, v |-> v]

EmptyDict == <<>>

DictHas(d, k) == \E i \in DOMAIN d : d[i].k = k

DictGet(d, k) == d[CHOOSE i \in DOMAIN d : d[i].k = k].v

\* d[k] = v, d.update({k: v}): an existing key keeps its position
DictSet(d, k, v) ==
    IF DictHas(d, k)
    THEN [i \in DOMAIN d |-> IF d[i].k = k THEN Item(k, v) ELSE d[i]]
    ELSE Append(d, Item(k, v))

\* ---------------------------------------------------------------- Schedule
RoutineClock_Own(given, own) == own

\* Routine.__init__, `if clock: self.clock = clock else: self.clock =
\* Clock()`, with the Clock object that Schedule.add hands over as clock: an
\* object of a class without __bool__ and __len__ is true.  own is the
\* Clock the routine would construct for itself.
RoutineClock(given, own) == given

\* Schedule.__next__ from routine i on.  st carries the exception raised so
\* far, the output dict, the cursors, the evaluations made and the wall
\* clock; lags[i] is the advance of the wall clock before routine i reads
\* the shared clock.
RECURSIVE ScheduleFrom(_, _, _, _, _)
ScheduleFrom(i, sched, sc, lags, st) ==
    IF i > Len(sched) \/ st.err # "" THEN st
    ELSE LET r == sched[i]
             t == st.t + lags[i]
             reading == ClockTime(RoutineClock(sc, ClockStart(Epoch)), t)
             res == RoutineNext(r, st.cursor[i], reading)
         IN ScheduleFrom(i + 1, sched, sc, lags,
                [err |-> res.err,
                 output |-> IF res.err = "" THEN DictSet(st.output, r.variable, res.out)
                            ELSE st.output,
                 cursor |-> [st.cursor EXCEPT ![i] = res.pos],
                 evals |-> IF res.read
                           THEN Append(st.evals, [routine |-> i, t |-> reading, out |-> res.out])
                           ELSE st.evals,
                 t |-> t])

ScheduleNext(sched, sc, cur, t, lags) ==
    ScheduleFrom(1, sched, sc, lags,
        [err |-> "", output |-> EmptyDict, cursor |-> cur, evals |-> <<>>, t |-> t])

\* ----------------------------------------------------------- InstrumentSet
\* MappedVariable.get through InstrumentSet.mapped_variables[knob]
MappedGet(kv, k) ==
    IF k \notin MappedVariables THEN [err |-> "KeyError", v |-> None]
    ELSE IF VarKnob(k) = "" THEN [err |-> "TypeError", v |-> None]
    ELSE [err |-> "", v |-> kv[VarKnob(k)]]

\* Experiment.__next__, "Get previously set knob values if no corresponding
\* routines are running": the loop over configuration.items() from item i
RECURSIVE FillFrom(_, _, _)
FillFrom(i, conf, kv) ==
    IF i > Len(conf) THEN [err |-> "", conf |-> conf]
    ELSE IF conf[i].v # None THEN FillFrom(i + 1, conf, kv)
    ELSE LET g == MappedGet(kv, conf[i].k)
         IN IF g.err # "" THEN [err |-> g.err, conf |-> conf]
            ELSE FillFrom(i + 1, [conf EXCEPT ![i] = Item(conf[i].k, g.v)], kv)

\* instrument.set(knob, value) of the Keithley2400: set_voltage/set_current
\* format the value with '%.2E' and then record it in knob_values
InstrumentSetKnob(kv, knob, v) ==
    IF v = None THEN [err |-> "TypeError", kv |-> kv]
    ELSE [err |-> "", kv |-> [kv EXCEPT ![knob] = v]]

\* InstrumentSet.apply from item i on
RECURSIVE ApplyFrom(_, _, _)
ApplyFrom(i, conf, kv) ==
    IF i > Len(conf) THEN [err |-> "", kv |-> kv]
    ELSE LET k == conf[i].k
             v == conf[i].v
             set == IF IsStr(k)
                    THEN IF k \notin MappedVariables THEN [err |-> "KeyError", kv |-> kv]
                         ELSE IF VarKnob(k) = "" THEN [err |-> "TypeError", kv |-> kv]
                         ELSE InstrumentSetKnob(kv, VarKnob(k), v)
                    ELSE InstrumentSetKnob(kv, PairKnob(k), v)
         IN IF set.err # "" THEN set ELSE ApplyFrom(i + 1, conf, set.kv)

Apply(conf, kv) == ApplyFrom(1, conf, kv)

\* InstrumentSet.alarm_map
AlarmMap(condition, val, thres) ==
    CASE condition = "IS" -> val = thres
      [] condition = "NOT" -> val # thres
      [] condition = "GREATER" -> val > thres
      [] condition = "GEQ" -> val > thres
      [] condition = "LESS" -> val < thres
      [] condition = "LEQ" -> val <= thres

CheckAlarms_Unlatched(alarms, trig, readings) ==
    [a \in DOMAIN trig |->
        LET config == alarms[CHOOSE i \in DOMAIN alarms : alarms[i].name = a]
            value == IF DictHas(readings, config.meter) THEN DictGet(readings, config.meter)
                     ELSE None
        IN IF value = None THEN trig[a]
           ELSE AlarmMap(config.condition, value, config.threshold)]

\* InstrumentSet.check_alarms: the triggered flags afterwards
CheckAlarms(alarms, trig, readings) ==
    [a \in DOMAIN trig |->
        LET config == alarms[CHOOSE i \in DOMAIN alarms : alarms[i].name = a]
            value == IF DictHas(readings, config.meter) THEN DictGet(readings, config.meter)
                     ELSE None
        IN IF value = None THEN trig[a]
           ELSE IF AlarmMap(config.condition, value, config.threshold) THEN TRUE
           ELSE trig[a]]

\* InstrumentSet.read(meters=None): the mapped variables that have a meter,
\* in the order of mapped_variables; vals gives what each meter returns.
\* The method returns before check_alarms.
ReadAll(vals) == << Item("V", vals["V"]), Item("T", vals["T"]) >>

\* dict.update(other)
RECURSIVE DictUpdate(_, _)
DictUpdate(d, other) ==
    IF other = <<>> THEN d
    ELSE DictUpdate(DictSet(d, Head(other).k, Head(other).v), Tail(other))


\* -------------------------------------------------------------- Experiment
MaxSteps == 2       \* longest record

MaxStops == 2       \* most Experiment.__next__ calls on a finished Experiment

\* tally of the Experiment.__next__ calls: whether one was made, how often
\* the start-of-run side effects and the terminal actions ran, the wall-clock
\* instant at which the last step asked the Schedule for its configuration
\* and the wall-clock time between the last two such instants (both kept
\* for the runcards that set a step interval), the wall-clock instant of the
\* first call and the one at which the last snapshot got its timing fields,
\* whether the user has called Schedule.start() since the last snapshot, how
\* many calls returned a snapshot, and what the last call returned (the
\* empty dict when it raised)
NoCalls == [requested |-> FALSE, starts |-> 0, stops |-> 0, reqAt |-> None, reqGap |-> None,
            firstAt |-> None, snapAt |-> None, restarted |-> FALSE, snaps |-> 0,
            returned |-> <<>>]

NoSave == [t |-> None, forced |-> FALSE, flushed |-> FALSE, gate |-> None]

Save_ForcedNoRearm(ec, ls, interval, t, lag, save_now) ==
    LET reading == ClockTime(ec, t)
        due == reading >= ls + interval
        flush == due \/ save_now
    IN [flushed |-> flush,
        last_save |-> IF due THEN ClockTime(ec, t + lag) ELSE ls,
        t |-> IF flush THEN t + lag ELSE t,
        call |-> [t |-> reading, forced |-> save_now, flushed |-> flush, gate |-> ls]]

Save_NoInterval(ec, ls, interval, t, lag, save_now) ==
    LET reading == ClockTime(ec, t)
        flush == reading >= ls \/ save_now
    IN [flushed |-> flush,
        last_save |-> IF flush THEN ClockTime(ec, t + lag) ELSE ls,
        t |-> IF flush THEN t + lag ELSE t,
        call |-> [t |-> reading, forced |-> save_now, flushed |-> flush, gate |-> ls]]

\* Experiment.save called at wall-clock t; lag is the time data.to_csv takes
Save(ec, ls, interval, t, lag, save_now) ==
    LET reading == ClockTime(ec, t)
        flush == reading >= ls + interval \/ save_now
    IN [flushed |-> flush,
        last_save |-> IF flush THEN ClockTime(ec, t + lag) ELSE ls,
        t |-> IF flush THEN t + lag ELSE t,
        call |-> [t |-> reading, forced |-> save_now, flushed |-> flush, gate |-> ls]]

\* the save ghosts after a call of Experiment.save
SaveObserved(sv) ==
    /\ svLast' = sv.call
    /\ svPrevU' = IF svLast # NoSave /\ ~svLast.forced THEN svLast ELSE svPrevU
    /\ svFlushU' = IF svLast # NoSave /\ ~svLast.forced /\ svLast.flushed THEN svLast.t
                   ELSE svFlushU
    /\ svForced' = IF sv.call.forced THEN ClockTime(eclock, sv.t) ELSE svForced

RECURSIVE AlarmFollowup_Append(_, _, _, _)
AlarmFollowup_Append(i, alarms, trig, fu) ==
    IF i > Len(alarms) THEN fu
    ELSE AlarmFollowup_Append(i + 1, alarms, trig,
            IF trig[alarms[i].name] THEN Append(fu, alarms[i].protocol) ELSE fu)

\* Experiment.__next__, "Flag for termination if any alarms have been
\* raised": the follow-up list after the loop over alarms from alarm i on
RECURSIVE AlarmFollowup(_, _, _, _)
AlarmFollowup(i, alarms, trig, fu) ==
    IF i > Len(alarms) THEN fu
    ELSE AlarmFollowup(i + 1, alarms, trig,
            IF trig[alarms[i].name] THEN <<alarms[i].protocol>> \o fu ELSE fu)

AnyTriggered(trig) == \E a \in DOMAIN trig : trig[a]

\* the state after Experiment.__init__(runcard r) at wall-clock Epoch
Built(r) ==
    /\ rc = r
    /\ eclock = ClockStart(Epoch)
    /\ sclock = ClockStart(Epoch)
    /\ cursor = [i \in DOMAIN Runcards[r].schedule |-> 0]
    /\ last_step = NegInf
    /\ last_save = NegInf
    /\ data = <<>>
    /\ running = FALSE
    /\ finished = FALSE
    /\ followup = <<Runcards[r].followup>>
    /\ triggered = [a \in {Runcards[r].alarms[i].name : i \in DOMAIN Runcards[r].alarms} |-> FALSE]
    /\ knob_values = Runcards[r].presets
    /\ connected = TRUE
    /\ result = "none"
    /\ evals = <<>>
    /\ applied = <<>>
    /\ durRead = None
    /\ lastEval = <<>>
    /\ svLast = NoSave
    /\ svPrevU = NoSave
    /\ svFlushU = None
    /\ svForced = None
    /\ tally = NoCalls

\* the Experiment of a behaviour that only exercises a Clock
Dormant == Built(1)

\* the last call on clk: the method, whether the clock was paused when it
\* was made, whether the same method was called just before at the same
\* instant, and whether stop() has been called in the latest paused interval
\* when that had lasted for some time already
LastCall(op, paused, again, restop) ==
    [op |-> op, paused |-> paused, again |-> again, restop |-> restop]

ClockIdle ==
    /\ clk = ClockStart(Epoch)
    /\ gStart = Epoch
    /\ gPaused = FALSE
    /\ gCurPause = 0
    /\ gPausedTotal = 0
    /\ lastRead = None
    /\ lastPausedRead = None
    /\ gLast = LastCall("start", FALSE, FALSE, FALSE)

Init ==
    /\ now = Epoch
    /\ ClockIdle
    /\ \E r \in DOMAIN Runcards : Buildable(r) /\ Built(r)
    /\ rt = Fresh(Schedule[1])

\* the wall clock advances by one unit between two calls
Tick ==
    /\ now < MaxTime
    /\ now' = now + 1
    /\ UNCHANGED <<routineVars, clockVars, expVars, obsVars>>

\* Schedule.start / stop / resume, called by the user of the Experiment
ScheduleStart ==
    /\ sclock' = ClockStart(now)
    /\ tally' = [tally EXCEPT !.restarted = TRUE]
    /\ UNCHANGED <<routineVars, now, clockVars, rc, eclock, cursor, last_step, last_save, data, running,
                   finished, followup, triggered, knob_values, connected,
                   result, evals, applied, durRead, lastEval, svLast, svPrevU, svFlushU, svForced>>

ScheduleStop ==
    /\ sclock' = ClockStop(sclock, now)
    /\ UNCHANGED <<routineVars, now, clockVars, rc, eclock, cursor, last_step, last_save, data, running,
                   finished, followup, triggered, knob_values, connected, obsVars>>

ScheduleResume ==
    /\ sclock' = ClockResume(sclock, now)
    /\ UNCHANGED <<routineVars, now, clockVars, rc, eclock, cursor, last_step, last_save, data, running,
                   finished, followup, triggered, knob_values, connected, obsVars>>

\* Experiment.save(save_now) called by the user of the Experiment
ExperimentSave ==
    \E save_now \in BOOLEAN, lag \in 0..MaxLag :
        LET sv == Save(eclock, last_save, RC.save_interval, now, lag, save_now)
        IN /\ sv.t <= MaxTime
           /\ now' = sv.t
           /\ last_save' = sv.last_save
           /\ SaveObserved(sv)
           /\ UNCHANGED <<routineVars, clockVars, rc, eclock, sclock, cursor, last_step, data, running,
                          finished, followup, triggered, knob_values, connected,
                          result, evals, applied, durRead, lastEval, tally>>

\* InstrumentSet.read(meters) called with a list of mapped meters: measures
\* them and evaluates the alarms on the readings
InstrumentsRead ==
    /\ connected
    /\ \E meters \in SUBSET {"T"}, vals \in MeterReadings :
        LET readings == SelectSeq(ReadAll(vals), LAMBDA it : it.k \in meters)
        IN /\ triggered' = CheckAlarms(RC.alarms, triggered, readings)
           /\ lastEval' = readings
    /\ UNCHANGED <<routineVars, now, clockVars, rc, eclock, sclock, cursor, last_step, last_save, data,
                   running, finished, followup, knob_values, connected,
                   result, evals, applied, durRead, svLast, svPrevU, svFlushU, svForced, tally>>


\* Experiment.__next__ on a finished Experiment ("Stop if finished").  The
\* runcards have no postsets, so disconnect() applies nothing; it then
\* iterates self.instruments.values() and leaves self.instruments = [], on
\* which a later call of .values() raises.
ExperimentStop ==
    /\ finished
    /\ tally.stops < MaxStops
    /\ tally' = [tally EXCEPT !.requested = TRUE, !.stops = @ + 1,
                              !.firstAt = IF tally.requested THEN @ ELSE now,
                              !.returned = <<>>]
    /\ \E lag \in 0..MaxLag :
        LET sv == Save(eclock, last_save, RC.save_interval, now, lag, TRUE)
        IN /\ sv.t <= MaxTime
           /\ now' = sv.t
           /\ running' = FALSE
           /\ last_save' = sv.last_save
           /\ SaveObserved(sv)
           /\ sclock' = ClockStop(sclock, sv.t)
           /\ connected' = FALSE
           /\ result' = IF connected THEN "StopIteration" ELSE "AttributeError"
    /\ evals' = <<>>
    /\ applied' = <<>>
    /\ UNCHANGED <<routineVars, clockVars, rc, eclock, cursor, last_step, data, finished, followup,
                   triggered, knob_values, durRead, lastEval>>

RecordAppend_Replace(record, state) == <<state>>

\* Experiment.__next__, self.data = self.data.append(state): the record with
\* the snapshot as its new last row
RecordAppend(record, state) == Append(record, state)

Times_OneClock(ec, sc, t) ==
    << Item("Total Time", ClockTime(ec, t)), Item("Schedule Time", ClockTime(ec, t)) >>

\* Experiment.__next__: the timing fields of a snapshot built at wall-clock t
Times(ec, sc, t) ==
    << Item("Total Time", ClockTime(ec, t)), Item("Schedule Time", ClockTime(sc, t)) >>

FirstIteration_Always(isRunning) == TRUE

\* Experiment.__next__, "On first iteration": the start-of-run side effects
\* (dump the runcard, start the Schedule clock) are due
FirstIteration(isRunning) == ~isRunning

StepWait_None(reading, lastStep, interval) == 0

\* Experiment.__next__, "Make sure time is right for next step": the
\* argument of time.sleep, 0 when it is not called
StepWait(reading, lastStep, interval) ==
    IF reading < lastStep + interval THEN lastStep + interval - reading ELSE 0

\* the duration check of Experiment.__next__
DurationExceeded_Geq(reading, duration) == reading >= duration

DurationExceeded_Never(reading, duration) == FALSE

DurationExceeded(reading, duration) == reading > duration

RECURSIVE SumTo(_, _)
SumTo(f, n) == IF n = 0 THEN 0 ELSE f[n] + SumTo(f, n - 1)

\* the advances of the wall clock inside one step of a schedule of n
\* routines: before each routine reads the Schedule clock (1..n), while
\* apply and read run (n+1) and while to_csv runs (n+2)
StepLags(n) == { l \in [1..(n + 2) -> 0..MaxLag] : SumTo(l, n + 2) <= MaxLag }

\* Experiment.__next__ on an Experiment that is not finished.  vals are the
\* values the meters return.
ExperimentStep ==
    /\ ~finished
    /\ Len(data) < MaxSteps
    /\ \E lags \in StepLags(Len(Schedule)), vals \in MeterReadings :
        LET lagIO == lags[Len(Schedule) + 1]
            lagSave == lags[Len(Schedule) + 2]
            first == FirstIteration(running)
            sc == IF first THEN ClockStart(now) ELSE sclock
            reading == ClockTime(sc, now)
            fin == DurationExceeded(reading, RC.duration) \/ AnyTriggered(triggered)
            wait == StepWait(reading, last_step, RC.step_interval)
            t1 == now + wait                      \* after time.sleep
        IN \* each of st, fill, ap and sv is the one value of its expression
           \E st \in {ScheduleNext(Schedule, sc, cursor, t1, lags)} :
           \E fill \in {FillFrom(1, st.output, knob_values)} :
           \E ap \in {Apply(fill.conf, knob_values)} :
           \E sv \in {Save(eclock, last_save, RC.save_interval, st.t + lagIO, lagSave, FALSE)} :
            LET t2 == st.t + lagIO                \* after apply and read
                readings == ReadAll(vals)
                times == Times(eclock, sc, t2)
                state == DictUpdate(DictUpdate(fill.conf, readings), times)
                raised == st.err # "" \/ fill.err # "" \/ ap.err # ""
                common ==
                    /\ sclock' = sc
                    /\ running' = TRUE
                    /\ durRead' = reading
                    /\ finished' = fin
                    /\ followup' = AlarmFollowup(1, RC.alarms, triggered, followup)
                    /\ last_step' = ClockTime(sc, t1)
                    /\ cursor' = st.cursor
                    /\ evals' = st.evals
                    /\ tally' = [tally EXCEPT
                                    !.requested = TRUE,
                                    !.firstAt = IF tally.requested THEN @ ELSE now,
                                    !.snapAt = IF raised THEN @ ELSE t2,
                                    !.restarted = IF raised THEN @ ELSE FALSE,
                                    !.snaps = IF raised THEN @ ELSE @ + 1,
                                    !.returned = IF raised THEN <<>> ELSE state,
                                    !.starts = IF first THEN @ + 1 ELSE @,
                                    !.reqAt = IF RC.step_interval > 0 THEN t1 ELSE None,
                                    !.reqGap = IF tally.reqAt = None THEN None
                                               ELSE t1 - tally.reqAt]
                    /\ UNCHANGED <<routineVars, clockVars, rc, eclock, triggered, connected,
                                   lastEval>>
            IN IF st.err # "" \/ fill.err # ""
               THEN \* a routine or MappedVariable.get raised
                    /\ st.t <= MaxTime
                    /\ common
                    /\ now' = st.t
                    /\ result' = IF st.err # "" THEN st.err ELSE fill.err
                    /\ applied' = <<>>
                    /\ UNCHANGED <<last_save, data, knob_values, svLast, svPrevU, svFlushU,
                                   svForced>>
               ELSE IF ap.err # ""
               THEN \* an instrument raised in apply
                    /\ st.t <= MaxTime
                    /\ common
                    /\ now' = st.t
                    /\ result' = ap.err
                    /\ applied' = fill.conf
                    /\ knob_values' = ap.kv
                    /\ UNCHANGED <<last_save, data, svLast, svPrevU, svFlushU, svForced>>
               ELSE /\ sv.t <= MaxTime
                    /\ common
                    /\ now' = sv.t
                    /\ result' = "snapshot"
                    /\ applied' = fill.conf
                    /\ knob_values' = ap.kv
                    /\ data' = RecordAppend(data, state)
                    /\ last_save' = sv.last_save
                    /\ SaveObserved(sv)

Next ==
    \/ Tick
    \/ ScheduleStop
    \/ ScheduleResume
    \/ ExperimentStep
    \/ ExperimentStop

\* the driver stepped by a caller who may pause and resume the Schedule
Spec == Init /\ [][Next]_vars

InitLive == Init /\ rc \in {2, 4}

\* the same caller, who keeps requesting steps: a request that is possible
\* from some point on is made.  The runcards are the second (a step
\* interval, steps that return and steps that raise) and the fourth (every
\* step raises).
SpecLive == InitLive /\ [][Next]_vars /\ WF_vars(ExperimentStep) /\ WF_vars(ExperimentStop)

NextAlarm ==
    \/ Tick
    \/ InstrumentsRead
    \/ ExperimentStep
    \/ ExperimentStop

\* the driver stepped by a caller who also reads meters through
\* InstrumentSet.read(meters), which evaluates the alarms
SpecAlarm == Init /\ [][NextAlarm]_vars

NextSave ==
    \/ Tick
    \/ ExperimentSave
    \/ ExperimentStep
    \/ ExperimentStop

InitSave == Init /\ rc = 2

\* the driver of the second runcard stepped by a caller who also calls
\* Experiment.save
SpecSave == InitSave /\ [][NextSave]_vars

NextRestart ==
    \/ Tick
    \/ ScheduleStart
    \/ ScheduleStop
    \/ ScheduleResume
    \/ ExperimentStep
    \/ ExperimentStop

InitRestart == Init /\ rc = 2

\* the driver of the second runcard stepped by a caller who may also restart
\* the Schedule
SpecRestart == InitRestart /\ [][NextRestart]_vars

\* --------------------------------------------- the Clock on its own
InitClock ==
    /\ now = Epoch
    /\ ClockIdle                        \* Clock.__init__ calls start()
    /\ Dormant
    /\ rt = Fresh(Schedule[1])

\* the wall clock advances by one unit
ClockTick ==
    /\ now < MaxTime
    /\ now' = now + 1
    /\ gCurPause' = IF gPaused THEN gCurPause + 1 ELSE gCurPause
    /\ gLast' = LastCall("tick", gPaused, FALSE, gLast.restop)
    /\ UNCHANGED <<clk, gStart, gPaused, gPausedTotal, lastRead, lastPausedRead>>
    /\ UNCHANGED <<expVars, obsVars, routineVars>>

CallStart ==
    /\ clk' = ClockStart(now)
    /\ gStart' = now
    /\ gPaused' = FALSE
    /\ gCurPause' = 0
    /\ gPausedTotal' = 0
    /\ lastRead' = None
    /\ lastPausedRead' = None
    /\ gLast' = LastCall("start", gPaused, gLast.op = "start", FALSE)
    /\ UNCHANGED <<now, expVars, obsVars, routineVars>>

CallStop ==
    /\ clk' = ClockStop(clk, now)
    /\ gPaused' = TRUE
    /\ gCurPause' = IF gPaused THEN gCurPause ELSE 0
    /\ lastPausedRead' = IF gPaused THEN lastPausedRead ELSE None
    /\ gLast' = LastCall("stop", gPaused, gLast.op = "stop",
                         gPaused /\ (gLast.restop \/ gCurPause > 0))
    /\ UNCHANGED <<now, gStart, gPausedTotal, lastRead, expVars, obsVars, routineVars>>

CallResume ==
    /\ clk' = ClockResume(clk, now)
    /\ gPaused' = FALSE
    /\ gPausedTotal' = IF gPaused THEN gPausedTotal + gCurPause ELSE gPausedTotal
    /\ gCurPause' = 0
    /\ lastPausedRead' = None
    /\ gLast' = LastCall("resume", gPaused, gLast.op = "resume", gLast.restop)
    /\ UNCHANGED <<now, gStart, lastRead, expVars, obsVars, routineVars>>

CallTime ==
    /\ lastRead' = ClockTime(clk, now)
    /\ lastPausedRead' = IF gPaused THEN ClockTime(clk, now) ELSE lastPausedRead
    /\ gLast' = LastCall("time", gPaused, gLast.op = "time", gLast.restop)
    /\ UNCHANGED <<now, clk, gStart, gPaused, gCurPause, gPausedTotal, expVars, obsVars, routineVars>>

\* --------------------------------------------- a routine on its own
\* one of FreeRoutines is constructed on the Clock clk
InitRoutine ==
    /\ now = Epoch
    /\ ClockIdle
    /\ Dormant
    /\ \E r \in FreeRoutines : rt = Fresh(r)

\* next(routine): the routine reads its clock and returns a value or None
RoutineCall ==
    /\ rt.calls < MaxCalls
    /\ LET t == ClockTime(clk, now)
           res == RoutineNext(rt.r, rt.pos, t)
           inside == InWindow(rt.r, t)
       IN rt' = [r |-> rt.r, pos |-> res.pos, calls |-> rt.calls + 1,
                 k |-> IF inside THEN rt.k + 1 ELSE rt.k,
                 left |-> rt.left \/ (~inside /\ rt.k > 0),
                 t |-> t, inside |-> inside, out |-> res.out, err |-> res.err]
    /\ UNCHANGED <<now, clockVars, expVars, obsVars>>

NextRoutine == ClockTick \/ CallStart \/ RoutineCall

SpecRoutine == InitRoutine /\ [][NextRoutine]_vars

\* one of DegenerateRoutines is constructed on the Clock clk
InitDegenerate ==
    /\ now = Epoch
    /\ ClockIdle
    /\ Dormant
    /\ \E r \in DegenerateRoutines : rt = Fresh(r)

SpecDegenerate == InitDegenerate /\ [][NextRoutine]_vars

NextClock == ClockTick \/ CallStart \/ CallStop \/ CallResume \/ CallTime

SpecClock == InitClock /\ [][NextClock]_vars

\* C1: whenever the clock is not paused, Clock.time() equals the wall-clock
\* time elapsed since start() minus the total length of the completed
\* paused intervals.
C1_ElapsedMinusPauses ==
    ~gPaused => ClockTime(clk, now) = (now - gStart) - gPausedTotal

\* a running clock that was paused for two units of wall-clock time or more
\* and has run for some time as well
C1_Witness ==
    /\ ~gPaused
    /\ gPausedTotal >= 2
    /\ clk.total_stoppage >= 2
    /\ (now - gStart) > gPausedTotal

\* C2: between two start() calls a reading of Clock.time() is never
\* negative, never smaller than the reading before it, and equal to the
\* earlier readings of the same paused interval.
C2_NonNegative == lastRead # None => lastRead >= 0

C2_Step ==
    /\ (lastRead # None /\ lastRead' # None) => lastRead' >= lastRead
    /\ (lastPausedRead # None /\ lastPausedRead' # None) => lastPausedRead' = lastPausedRead

C2_MonotoneFrozen == []C2_NonNegative /\ [][C2_Step]_vars

\* two readings have been taken in one paused interval while the wall clock
\* moved on
C2_Witness ==
    /\ gPaused
    /\ gCurPause >= 2
    /\ lastPausedRead # None
    /\ lastRead = lastPausedRead
    /\ lastRead >= 1


\* ------------------------------------------------------------------ claims
\* the end of the window of a routine with a well-formed window
WindowEnd(r) == IF Len(r.times) = 1 THEN Inf ELSE r.times[2]

OutsideWindow(r, t) == t < r.times[1] \/ t > WindowEnd(r)

\* C3: a Hold, Ramp or Sweep routine stepped at a clock reading before the
\* start or after the end of its window yields no_change (None).
C3_NoChangeOutsideWindow ==
    \A i \in DOMAIN evals :
        LET r == Schedule[evals[i].routine]
        IN (r.kind \in {"Hold", "Ramp", "Sweep"} /\ OutsideWindow(r, evals[i].t))
               => evals[i].out = None

\* a Hold and a Ramp were both stepped after the end of their windows, once
\* the Hold has put its value on the knob
C3_Witness ==
    /\ Len(evals) = 2
    /\ \A i \in DOMAIN evals :
          /\ Schedule[evals[i].routine].kind \in {"Hold", "Ramp"}
          /\ evals[i].t > WindowEnd(Schedule[evals[i].routine])
          /\ evals[i].out = None
    /\ \E i \in DOMAIN data : DictGet(data[i], "I") > 0

\* C4: in one Schedule step every routine is evaluated at the same reading
\* of the Schedule clock.
C4_SameReading ==
    \A i, j \in DOMAIN evals : evals[i].t = evals[j].t

\* C5: without alarms the driver is finished exactly when a step request
\* has found the Schedule clock strictly above the duration; finished is
\* never withdrawn, and once the driver has stopped running it never runs
\* again.  (No alarm latches under Spec.)
C5_FinishedIffExceeded ==
    finished <=> (durRead # None /\ durRead > RC.duration)

C5_Step ==
    /\ finished => finished'
    /\ (finished /\ ~running) => ~running'

C5_DurationEndsRun == []C5_FinishedIffExceeded /\ [][C5_Step]_vars

\* the run was stepped at a reading equal to the duration without
\* finishing, then finished and was stopped
C5_Witness ==
    /\ finished
    /\ ~running
    /\ result = "StopIteration"
    /\ durRead > RC.duration
    /\ \E i \in DOMAIN data : DictGet(data[i], "Schedule Time") = RC.duration

\* C6: the step request that detects termination produces nothing: it
\* applies no configuration, appends no snapshot and returns no snapshot.
C6_DetectionStep ==
    (~finished /\ finished') =>
        (result' # "snapshot" /\ data' = data /\ applied' = <<>>)

C6_DetectionYieldsNothing == [][C6_DetectionStep]_vars

\* the readings of the last snapshot satisfy the condition of alarm a
ReadingTrips(a) ==
    /\ result = "snapshot"
    /\ DictHas(data[Len(data)], a.meter)
    /\ AlarmMap(a.condition, DictGet(data[Len(data)], a.meter), a.threshold)

\* C7: when the readings of a step satisfy an alarm's condition, the
\* alarm's triggered flag is set.
C7_StepLatchesAlarm ==
    \A i \in DOMAIN RC.alarms : ReadingTrips(RC.alarms[i]) => triggered[RC.alarms[i].name]

\* C8: a triggered flag that is true stays true over every later
\* evaluation of the alarms.
C8_Step == \A a \in DOMAIN triggered : triggered[a] => triggered'[a]

C8_Latched == [][C8_Step]_vars

\* the alarm is latched and the last evaluation saw a reading that does
\* not satisfy its condition
C8_Witness ==
    /\ rc = 2
    /\ triggered["hot"]
    /\ lastEval = << Item("T", 1) >>

\* C9: the configuration handed to apply contains no None, and the
\* substitution of the last known value succeeds for every kind of knob.
C9_NoNoneApplied ==
    /\ \A i \in DOMAIN applied : applied[i].v # None
    /\ result # "KeyError"

\* C10 as claimed: an unforced save flushes only at last_save + save
\* interval or later, a forced save flushes, and of two unforced saves
\* closer than the save interval exactly one flushes.
C10_ExactlyOne ==
    /\ (svLast # NoSave /\ ~svLast.forced /\ svLast.flushed)
           => svLast.t >= svLast.gate + RC.save_interval
    /\ (svLast # NoSave /\ svLast.forced) => svLast.flushed
    /\ (svLast # NoSave /\ ~svLast.forced /\ svPrevU # NoSave
            /\ svLast.t - svPrevU.t < RC.save_interval)
           => (svLast.flushed # svPrevU.flushed)

\* C10 amended: an unforced save flushes only at last_save + save interval
\* or later, a forced save flushes, and of two unforced saves closer than
\* the save interval at most one flushes.
C10_Throttle ==
    /\ (svLast # NoSave /\ ~svLast.forced /\ svLast.flushed)
           => svLast.t >= svLast.gate + RC.save_interval
    /\ (svLast # NoSave /\ svLast.forced) => svLast.flushed
    /\ (svLast # NoSave /\ ~svLast.forced /\ svLast.flushed /\ svFlushU # None)
           => svLast.t - svFlushU >= RC.save_interval

\* an unforced save flushed, the next unforced save came within the save
\* interval and did not flush, and a forced save flushed inside the interval
C10_Witness ==
    /\ svLast.forced /\ svLast.flushed
    /\ svPrevU # NoSave /\ ~svPrevU.flushed
    /\ svFlushU # None
    /\ svPrevU.t - svFlushU < RC.save_interval
    /\ svLast.t - svFlushU < RC.save_interval

\* C11: a forced save re-arms the throttle: when a forced save returns,
\* last_save is the Experiment clock reading of that moment, and no unforced
\* save flushes earlier than one save interval after the last forced save.
C11_ForcedRearms ==
    /\ (svLast # NoSave /\ svLast.forced) => last_save = svForced
    /\ (svLast # NoSave /\ ~svLast.forced /\ svLast.flushed /\ svForced # None)
           => svLast.t >= svForced + RC.save_interval

\* an unforced save that the last unforced flush alone would have let
\* through does not flush, because a forced save came in between
C11_Witness ==
    /\ svLast # NoSave /\ ~svLast.forced /\ ~svLast.flushed
    /\ svForced # None /\ svFlushU # None
    /\ svLast.t >= svFlushU + RC.save_interval
    /\ svLast.t < svForced + RC.save_interval

\* C12: between the instants at which two consecutive steps ask the Schedule
\* for its configuration at least the step interval of wall-clock time
\* passes, whether the Schedule clock ran, was stopped or was resumed.
C12_StepSpacing ==
    tally.reqGap # None => tally.reqGap >= RC.step_interval

\* two consecutive steps exactly one step interval apart with the Schedule
\* clock stopped and resumed before the second
C12_Witness ==
    /\ RC.step_interval > 0
    /\ tally.reqGap = RC.step_interval
    /\ sclock.total_stoppage > 0
    /\ Len(data) = 2

\* C13: over any sequence of step requests the start-of-run side effects
\* (dump the runcard, start the Schedule clock) run exactly once, on the
\* first request, and on no later one.
C13_StartOnce ==
    tally.starts = (IF tally.requested THEN 1 ELSE 0)

\* steps were taken, the run finished and a request was made after that
C13_Witness ==
    /\ tally.starts = 1
    /\ Len(data) = MaxSteps
    /\ tally.stops > 0
    /\ running = FALSE

\* C14 as claimed: over any sequence of step requests, requests on a
\* finished Experiment included, the terminal actions (forced final save,
\* Schedule clock stop, disconnect) are performed exactly once, and the
\* requests after the first terminal one end as that one did.
C14_TerminalOnce ==
    /\ tally.stops <= 1
    /\ result # "AttributeError"

\* C15 as claimed: when a step raises, the error reaches the caller and the
\* terminal transition has run all the same: the record is saved by a forced
\* save, the Schedule clock is stopped and the instruments are disconnected.
C15_ErrorThenTerminal ==
    result \in {"IndexError", "ValueError", "ZeroDivisionError", "KeyError", "TypeError"}
        => /\ svLast # NoSave /\ svLast.forced
           /\ sclock.stop_time # None
           /\ ~connected

\* C16 as claimed: a routine with a window of more than two bounds is
\* refused by Schedule.add, so no step of an Experiment that was built
\* raises the error about the window.
C16_NoWindowErrorAtStep ==
    result # "IndexError"

C18_RampLinear ==
    (/\ rt.r.kind = "Ramp" /\ rt.calls > 0
     /\ Len(rt.r.times) = 2 /\ rt.r.times[1] < rt.r.times[2]
     /\ rt.r.times[1] <= rt.t /\ rt.t <= rt.r.times[2])
        => /\ rt.err = ""
           /\ (rt.out - rt.r.values[1]) * (rt.r.times[2] - rt.r.times[1])
                 = (rt.r.values[2] - rt.r.values[1]) * (rt.t - rt.r.times[1])
           /\ (rt.t = rt.r.times[1] => rt.out = rt.r.values[1])
           /\ (rt.t = rt.r.times[2] => rt.out = rt.r.values[2])

\* a Ramp called strictly inside its window, after earlier calls, returned a
\* value strictly between its two values
C18_Witness ==
    /\ rt.r.kind = "Ramp" /\ Len(rt.r.times) = 2
    /\ rt.r.times[1] < rt.t /\ rt.t < rt.r.times[2]
    /\ rt.r.values[1] < rt.out /\ rt.out < rt.r.values[2]
    /\ rt.calls >= 2

\* C19: a Sweep over n >= 1 values returns at its k-th call inside the
\* window, counted from 0, the element of index k mod n.
C19_SweepCycles ==
    (rt.r.kind = "Sweep" /\ rt.inside /\ Len(rt.r.values) > 0)
        => /\ rt.err = ""
           /\ rt.out = rt.r.values[((rt.k - 1) % Len(rt.r.values)) + 1]

\* a Sweep over three values called a fourth time inside its window
C19_Witness ==
    /\ rt.r.kind = "Sweep" /\ Len(rt.r.values) = 3
    /\ rt.inside /\ rt.k = 4
    /\ rt.out = rt.r.values[1]

\* C20: a Transit over n values with cutoff c returns the values in order at
\* its first n calls made at readings <= c, None at every later call at a
\* reading <= c, and None at every call at a reading > c wherever its cursor.
C20_TransitOnce ==
    (rt.r.kind = "Transit" /\ rt.calls > 0)
        => /\ rt.err = ""
           /\ rt.out = (IF rt.t <= rt.r.times[1] /\ rt.k <= Len(rt.r.values)
                        THEN rt.r.values[rt.k] ELSE None)

\* a Transit over two values gave both, was called after the cutoff with
\* values left or not, and is called once more at a reading below the cutoff
C20_Witness ==
    /\ rt.r.kind = "Transit" /\ Len(rt.r.values) = 2
    /\ rt.k = 3 /\ rt.calls = 4
    /\ rt.t <= rt.r.times[1]
    /\ rt.out = None

\* C21: the cursor of a Sweep or Transit moves only at a call made inside
\* the window.  A call outside the window leaves it where it was; a call
\* inside the window, also one that re-enters the window after the clock was
\* restarted, returns the element after the cursor and not the first one.
C21_Step ==
    (rt'.calls = rt.calls + 1 /\ rt.r.kind \in {"Sweep", "Transit"})
        => IF ~rt'.inside THEN rt'.pos = rt.pos /\ rt'.out = None
           ELSE IF rt.pos < Len(rt.r.values)
                THEN rt'.pos = rt.pos + 1 /\ rt'.out = rt.r.values[rt.pos + 1]
                ELSE IF rt.r.kind = "Sweep"
                     THEN rt'.pos = 1 /\ rt'.out = rt.r.values[1]
                     ELSE rt'.pos = rt.pos /\ rt'.out = None

C21_CursorKept == [][C21_Step]_vars

\* a Sweep was called inside its window, then outside it, the clock having
\* been restarted, then inside again, and returned its second element
C21_Witness ==
    /\ rt.r.kind = "Sweep" /\ Len(rt.r.times) = 2
    /\ rt.left /\ rt.inside
    /\ rt.k = 2 /\ rt.pos = 2
    /\ rt.out = rt.r.values[2]

\* C22: every routine of the Schedule reads the Clock of the Schedule: in a
\* step taken while the Schedule is stopped every routine sees the frozen
\* reading, in any other step a reading between that of the duration check
\* and that of the end of the step; and starting, stopping or resuming the
\* Schedule changes neither the Clock of the Experiment nor any other Clock.
C22_Step ==
    /\ Len(data') = Len(data) + 1
          => \A i \in DOMAIN evals' :
                IF sclock'.stop_time # None
                THEN evals'[i].t = ClockTime(sclock', now')
                ELSE durRead' <= evals'[i].t /\ evals'[i].t <= ClockTime(sclock', now')
    /\ sclock' # sclock => (eclock' = eclock /\ clk' = clk)

C22_SharedClock == [][C22_Step]_vars

\* two snapshots with the same Schedule Time and different Total Time: the
\* routines of the second step read the stopped Clock of the Schedule
C22_Witness ==
    /\ Len(data) = 2 /\ result = "snapshot"
    /\ sclock.stop_time # None
    /\ DictGet(data[1], "Schedule Time") = DictGet(data[2], "Schedule Time")
    /\ DictGet(data[1], "Total Time") < DictGet(data[2], "Total Time")
    /\ Len(evals) > 0
    /\ \A i \in DOMAIN evals : evals[i].t = DictGet(data[2], "Schedule Time")

\* C23 as claimed: an alarm whose condition, read as the relation it names
\* (IS =, NOT /=, GREATER >, GEQ >=, LESS <, LEQ <=), holds between the
\* reading handed to check_alarms and the threshold is triggered.
C23_ConditionsAsNamed ==
    \A i \in DOMAIN RC.alarms :
        LET a == RC.alarms[i]
            v == DictGet(lastEval, a.meter)
            h == a.threshold
        IN (/\ DictHas(lastEval, a.meter)
            /\ CASE a.condition = "IS" -> v = h
                 [] a.condition = "NOT" -> v # h
                 [] a.condition = "GREATER" -> v > h
                 [] a.condition = "GEQ" -> v >= h
                 [] a.condition = "LESS" -> v < h
                 [] a.condition = "LEQ" -> v <= h)
               => triggered[a.name]

\* C24 as claimed: a Ramp with a one-element window, whose end is not
\* finite, is reported as an error at every call and returns no value.
C24_OpenRampRejected ==
    (rt.r.kind = "Ramp" /\ Len(rt.r.times) = 1 /\ rt.calls > 0)
        => (rt.err # "" /\ rt.out = None)

\* C25: stop() on a paused clock leaves start_time, the recorded pause
\* instant (that of the first stop()) and total_stoppage as they were, and a
\* resume() after repeated stop() calls adds the paused interval once,
\* counted from the first stop().
C25_StopOnPaused ==
    /\ (gLast.op = "stop" /\ gLast.paused)
           => /\ clk.start_time = gStart
              /\ clk.stop_time = now - gCurPause
              /\ clk.total_stoppage = gPausedTotal
    /\ (gLast.op = "resume" /\ gLast.paused /\ gLast.restop)
           => /\ clk.stop_time = None
              /\ clk.total_stoppage = gPausedTotal
              /\ ClockTime(clk, now) = (now - gStart) - gPausedTotal

\* the clock was stopped, stopped again some time later and then resumed
\* after two units of time or more in all
C25_Witness ==
    /\ gLast.op = "resume" /\ gLast.paused /\ gLast.restop
    /\ clk.total_stoppage >= 2
    /\ now - gStart > clk.total_stoppage

\* C26: resume() on a paused clock adds now minus the pause instant to
\* total_stoppage and clears the pause; resume() on a clock that is not
\* paused changes neither start_time nor total_stoppage nor the paused state.
C26_Step ==
    (gLast'.op = "resume" /\ gLast' # gLast)
        => /\ clk'.start_time = clk.start_time
           /\ clk'.stop_time = None
           /\ clk'.total_stoppage = IF gPaused THEN clk.total_stoppage + (now - clk.stop_time)
                                    ELSE clk.total_stoppage
           /\ gPaused <=> clk.stop_time # None

C26_Resume == [][C26_Step]_vars

\* resume() was called on a running clock that had accumulated stoppage
C26_Witness ==
    /\ gLast.op = "resume" /\ ~gLast.paused
    /\ clk.total_stoppage > 0
    /\ clk.stop_time = None

\* C27: start() called in any state leaves the clock running with origin now
\* and no stoppage, so that time() reads 0 at that instant; a second start()
\* at the same instant leaves the same state.
C27_StartResets ==
    gLast.op = "start"
        => /\ clk = [start_time |-> now, stop_time |-> None, total_stoppage |-> 0]
           /\ ClockTime(clk, now) = 0

\* start() was called twice at the same instant, later than construction
C27_Witness ==
    /\ gLast.op = "start" /\ gLast.again
    /\ now > Epoch
    /\ clk.start_time = now

\* C28: Schedule Time is paused independently of Total Time.  Of two
\* successive snapshots taken while the Schedule is stopped the second has
\* the Schedule Time of the first and a Total Time larger by the wall-clock
\* time between them; and the run is finished only when the Schedule clock
\* is above the duration, whatever the Total Time.
C28_Finished == finished => ClockTime(sclock, now) > RC.duration

C28_Step ==
    (/\ Len(data') = Len(data) + 1
     /\ Len(data) >= 1
     /\ sclock.stop_time # None /\ sclock.stop_time <= tally.snapAt
     /\ sclock' = sclock)
        => /\ DictGet(data'[Len(data')], "Schedule Time")
                 = DictGet(data[Len(data)], "Schedule Time")
           /\ DictGet(data'[Len(data')], "Total Time") - DictGet(data[Len(data)], "Total Time")
                 = tally'.snapAt - tally.snapAt

C28_IndependentPause == []C28_Finished /\ [][C28_Step]_vars

\* the second of two snapshots taken while the Schedule is stopped has a
\* Total Time above the duration, and the run is not finished
C28_Witness ==
    /\ Len(data) = 2 /\ result = "snapshot"
    /\ sclock.stop_time # None
    /\ DictGet(data[2], "Schedule Time") = DictGet(data[1], "Schedule Time")
    /\ DictGet(data[2], "Total Time") > DictGet(data[1], "Total Time")
    /\ DictGet(data[2], "Total Time") > RC.duration
    /\ ~finished

\* C29 as claimed: the Total Time of a snapshot is the time elapsed since
\* the first step request.
C29_TotalSinceFirstRequest ==
    result = "snapshot"
        => DictGet(data[Len(data)], "Total Time") = tally.snapAt - tally.firstAt

C30_Step ==
    (Len(data') = Len(data) + 1 /\ Len(data) >= 1 /\ ~tally.restarted)
        => DictGet(data[Len(data)], "Schedule Time")
               <= DictGet(data'[Len(data')], "Schedule Time")

C31_Count == Len(data) = tally.snaps

C31_Step ==
    \/ data' = data /\ tally'.snaps = tally.snaps
    \/ /\ tally'.snaps = tally.snaps + 1
       /\ result' = "snapshot"
       /\ Len(data') = Len(data) + 1
       /\ SubSeq(data', 1, Len(data)) = data
       /\ data'[Len(data')] = tally'.returned

C31_AppendOnly == []C31_Count /\ [][C31_Step]_vars

\* a record of two different snapshots, the second returned by a step, after
\* which the user forced a save and the record is still the same
C31_Witness ==
    /\ Len(data) = 2 /\ tally.snaps = 2
    /\ data[1] # data[2]
    /\ data[2] = tally.returned
    /\ result = "snapshot"
    /\ svLast # NoSave /\ svLast.forced

\* C32: when a step ends the run with alarms latched, the follow-up list
\* gets the protocol of each triggered alarm exactly once, ahead of the
\* follow-up configured in the experiment settings, which stays last; when
\* the run ends by duration alone the list is left as it was, and it is not
\* changed before the run ends nor after.
C32_Configured == ~finished => followup = <<RC.followup>>

C32_Step ==
    /\ (finished \/ ~finished') => followup' = followup
    /\ (~finished /\ finished') =>
          LET hit == {i \in DOMAIN RC.alarms : triggered[RC.alarms[i].name]}
              ahead == 1..(Len(followup') - 1)
          IN /\ Len(followup') = Cardinality(hit) + 1
             /\ followup'[Len(followup')] = RC.followup
             /\ \A i \in hit :
                    Cardinality({j \in ahead : followup'[j] = RC.alarms[i].protocol}) = 1
             /\ hit = {} => followup' = followup

C32_FollowupOnce == []C32_Configured /\ [][C32_Step]_vars

\* the run of the second runcard ended with both alarms latched and the
\* Schedule clock within the duration, and was stopped
C32_Witness ==
    /\ rc = 2
    /\ finished /\ result = "StopIteration"
    /\ durRead <= RC.duration
    /\ triggered["hot"] /\ triggered["low"]
    /\ followup = <<"warm up", "cool down", "None">>

\* the run of the third runcard ended by duration alone
C32_WitnessDuration ==
    /\ rc = 3
    /\ finished /\ result = "StopIteration"
    /\ ~AnyTriggered(triggered)
    /\ followup = <<"notify">>

\* C33: if the caller keeps requesting steps and the Schedule clock is not
\* left stopped, so that its reading gets above the (finite) duration and
\* stays there, then the Experiment reaches finished and a later request
\* ends the iteration.  A request is possible as long as the record and the
\* wall clock have room for the step.
C33_Elapsed == ClockTime(sclock, now) > RC.duration

C33_CanRequest == finished \/ ENABLED ExperimentStep

C33_Ended == finished /\ tally.stops > 0 /\ result = "StopIteration"

C33_Terminates == <>[](C33_Elapsed /\ C33_CanRequest) => <>C33_Ended

\* a run that recorded a snapshot, ended by duration alone and was stopped
\* by the request after the one that found the duration exceeded
C33_Witness ==
    /\ C33_Ended
    /\ C33_Elapsed
    /\ tally.stops = 1
    /\ ~AnyTriggered(triggered)
    /\ Len(data) >= 1

\* the values that the routines targeting knob k yielded in the last step
C34_Yielded(k) ==
    { evals[j].out : j \in { n \in DOMAIN evals :
                               Schedule[evals[n].routine].variable = k /\ evals[n].out # None } }

\* C34 as claimed: when two routines of the Schedule target the same knob
\* and at least one of them yields a value in a step, the configuration of
\* that step gives the knob a value yielded by one of them, in whatever
\* order the routines were registered.
C34_SharedKnobKeepsValue ==
    \A i \in DOMAIN applied :
        (/\ Cardinality({n \in DOMAIN Schedule : Schedule[n].variable = applied[i].k}) >= 2
         /\ C34_Yielded(applied[i].k) # {})
            => applied[i].v \in C34_Yielded(applied[i].k)

\* C35 as claimed: once the Experiment is finished, every further step
\* request, the first and all later ones, ends the iteration with
\* StopIteration, raises no other error, and neither returns nor records a
\* snapshot.
C35_EveryRequestEnds ==
    (finished /\ tally.stops > 0)
        => /\ result = "StopIteration"
           /\ tally.returned = <<>>
           /\ Len(data) = tally.snaps

\* C36 as claimed: in every snapshot the entry under the name of each
\* scheduled knob is the value applied to that knob in the step, also for a
\* mapped variable that has both a knob and a meter.
C36_SnapshotHasApplied ==
    result = "snapshot"
        => \A i \in DOMAIN applied :
               DictGet(data[Len(data)], applied[i].k) = applied[i].v

\* C37 as claimed: a routine that Schedule.add constructed without error
\* raises no error when it is called, at any clock reading; a Ramp whose
\* window has start equal to end returns a value or None, and a Sweep over
\* an empty sequence returns None.
C37_NoErrorAtStep ==
    (~AddRaises(rt.r) /\ rt.calls > 0)
        => /\ rt.err = ""
           /\ (rt.r.kind = "Sweep" /\ rt.r.values = <<>>) => rt.out = None

====
